---- MODULE Spec2Model ----
(***************************************************************************)
(* copytab: the offline-first synchronisation hook (useOfflineSync), the   *)
(* Dexie-backed offline store (offlineService / offlineDB), the remote      *)
(* gateway services and the completion service with its cache.             *)
(*                                                                         *)
(* Two specifications share the module:                                    *)
(*   Spec       the sync engine: local saves, sync triggers, sync cycles   *)
(*   SpecCache  the expiring cache table and the completion service        *)
(***************************************************************************)
EXTENDS Integers, Sequences, FiniteSets, TLC

(***************************************************************************)
(* Bounds of the model.                                                    *)
(***************************************************************************)
MaxCycles == 2      \* syncData invocations that get past the guard
MaxSaves == 2       \* local writes: save*Offline and deleteDocument calls
MaxNetFlips == 2    \* online/offline transitions delivered by the browser
MaxAuth == 1        \* changes of useAuth().user

(***************************************************************************)
(* Identifiers.  A placeholder id is one for which id.startsWith('temp_')  *)
(* holds; the gateway assigns ids of the other form.                       *)
(***************************************************************************)
Tables == {"projects", "documents", "standard_info"}
TempIds == {"temp_1"}
SrvIds == {"srv_1", "srv_2", "srv_3"}
Ids == TempIds \cup SrvIds
NoId == "no_id"
NoUser == "no_user"
TheUser == "u1"

\* id.startsWith('temp_')
IsTemp(id) == id \in TempIds

\* Dexie returns the rows of where('user_id').equals(u).toArray() ordered by
\* primary key; for strings that is the lexicographic order.
IdOrder == <<"srv_1", "srv_2", "srv_3", "temp_1">>

InOrder(S) == SelectSeq(IdOrder, LAMBDA i : i \in S)

\* The push loops with the documents taken up before the projects.
TableOrderDocumentsFirst == <<"documents", "projects", "standard_info">>

\* The order of the three push loops of syncData and of the three put loops
\* of syncFromServer.
TableOrder == <<"projects", "documents", "standard_info">>

TableIndex(t) == CHOOSE i \in 1..3 : TableOrder[i] = t

(***************************************************************************)
(* Records.  last_sync_at = 0 stands for null; times are the values of     *)
(* clock, which start at 1.                                                *)
(***************************************************************************)
Absent == [status |-> "absent", content |-> 0, pid |-> NoId, lsa |-> 0, lua |-> 0]

AbsentSrv == [present |-> FALSE, content |-> 0, pid |-> NoId]

Present(r) == r.status # "absent"

IdsOf(tbl) == {i \in Ids : Present(tbl[i])}

SrvIdsOf(tbl) == {i \in Ids : tbl[i].present}

VARIABLES
    user,        \* useAuth().user
    net,         \* navigator.onLine
    syncState,   \* the hook's useState value
    mounted,     \* what the network effect's closure captured at mount
    local,       \* offlineDB.projects / documents / standard_info
    queue,       \* offlineDB.sync_queue
    server,      \* the rows the remote gateway holds for the user
    cache,       \* offlineDB.cache
    clock,       \* Date.now()
    cycles,      \* the syncData invocations in progress or finished
    budget,      \* how many environment events have happened
    hist,        \* history: what was saved, what the gateway received, events dispatched
    memCache,          \* CompletionService.cache
    pendingRequests,   \* CompletionService.pendingRequests
    abortControllers,  \* CompletionService.abortControllers
    reqs,              \* the remote requests made by makeAPIRequest
    callers,           \* the calls of generateCompletion
    got,               \* what the last getCache call returned
    hookState          \* one useCompletion hook: its state, its timer ref, its calls

\* What the completion service leaves alone, and what the sync engine does.
syncVars == <<user, net, syncState, mounted, local, queue, server, cycles, hist, hookState>>

completionVars == <<memCache, pendingRequests, abortControllers, reqs, callers, got, hookState>>

vars == <<user, net, syncState, mounted, local, queue, server, cache, clock, cycles, budget, hist,
          memCache, pendingRequests, abortControllers, reqs, callers, got, hookState>>

(***************************************************************************)
(* The offline store (offlineService over Dexie tables).                   *)
(***************************************************************************)

\* The secondary indexes the schema declares for sync_queue; a Dexie
\* where(field) on a field that is not indexed rejects with a SchemaError.
SyncQueueIndexes == {"id", "table", "operation", "user_id", "created_at"}

\* A saved record that keeps the status of a synced record.
SavedRecordSynced(content, pid, now) ==
    [status |-> "synced", content |-> content, pid |-> pid, lsa |-> now, lua |-> now]

\* save*Offline: the record as written by put(), whatever was there before.
SavedRecord(content, pid, now) ==
    [status |-> "pending", content |-> content, pid |-> pid, lsa |-> 0, lua |-> now]

\* addToSyncQueue: the entry appended for a saved record.
QueueItem(t, op, id) ==
    [table |-> t, operation |-> op, original_id |-> id, retry_count |-> 0, last_error |-> FALSE]

\* updateSyncStatus, first half: Table.update(id, {sync_status, last_sync_at}).
\* Dexie's update of a key that is not in the table changes nothing.
UpdateStatusFields(loc, t, id, status, now) ==
    IF Present(loc[t][id])
    THEN [loc EXCEPT ![t][id].status = status,
                     ![t][id].lsa = IF status = "synced" THEN now ELSE 0]
    ELSE loc

\* updateSyncStatus, second half (only when an error message is passed):
\* the queue entries of the record get last_error and retry_count + 1.
BumpRetries(q, id) ==
    [k \in 1..Len(q) |->
        IF q[k].original_id = id
        THEN [q[k] EXCEPT !.retry_count = @ + 1, !.last_error = TRUE]
        ELSE q[k]]

\* updateSyncStatus as a whole: the new tables and whether the call rejected.
updateSyncStatus(loc, q, t, id, status, hasError, now) ==
    LET loc2 == UpdateStatusFields(loc, t, id, status, now) IN
    IF ~hasError
    THEN [local |-> loc2, queue |-> q, threw |-> FALSE]
    ELSE IF "original_id" \in SyncQueueIndexes
         THEN [local |-> loc2, queue |-> BumpRetries(q, id), threw |-> FALSE]
         ELSE [local |-> loc2, queue |-> q, threw |-> TRUE]

\* offlineDB.<table>.update(oldId, {id: newId, sync_status: 'synced'}).
\* Dexie applies a change of the primary key as delete + add; a change that
\* leaves the record without a primary key (newId undefined) or collides
\* with an existing key is rejected and the table is left as it was.
ReplaceId(loc, t, oldId, newId) ==
    IF ~Present(loc[t][oldId])
    THEN [local |-> loc, threw |-> FALSE]
    ELSE IF newId = NoId \/ (newId # oldId /\ Present(loc[t][newId]))
         THEN [local |-> loc, threw |-> TRUE]
         ELSE [local |-> [loc EXCEPT ![t][oldId] = Absent,
                                     ![t][newId] = [loc[t][oldId] EXCEPT !.status = "synced"]],
               threw |-> FALSE]

\* A push loop without the filter: every row of the user is taken up.
IsSelectedUnfiltered(r) == TRUE

\* The filter each push loop applies to the user's rows.
IsSelected(r) == r.status = "pending"

PendingIds(loc, t) == {i \in Ids : Present(loc[t][i]) /\ IsSelected(loc[t][i])}

\* One element of pendingProjects / pendingDocuments / pendingStandardInfo:
\* the loop works on the row as it was read, not as it is now.
Snapshot(loc, t, i) == [id |-> i, content |-> loc[t][i].content, pid |-> loc[t][i].pid]

PendingRows(loc, t) ==
    LET order == InOrder(PendingIds(loc, t))
    IN [k \in 1..Len(order) |-> Snapshot(loc, t, order[k])]

\* syncFromServer: the row put() writes for a server row.
PulledRecord(srow, now) ==
    [status |-> "synced", content |-> srow.content, pid |-> srow.pid, lsa |-> now, lua |-> now]

\* A pull that mirrors the gateway instead: rows it did not return are dropped.
PullTableMirroring(ltbl, stbl, now) ==
    [i \in Ids |-> IF stbl[i].present THEN PulledRecord(stbl[i], now) ELSE Absent]

\* syncFromServer: one of the three loops over the fetched rows.
PullTable(ltbl, stbl, now) ==
    [i \in Ids |-> IF stbl[i].present THEN PulledRecord(stbl[i], now) ELSE ltbl[i]]

(***************************************************************************)
(* The cache table.  A row's expires_at is either an ISO string written    *)
(* by setCache (kind "iso") or the Date object that saveCachedCompletion   *)
(* stores as it is (kind "date"); t is the instant it denotes.             *)
(***************************************************************************)
IsoTime(t) == [kind |-> "iso", t |-> t]

DateTime(t) == [kind |-> "date", t |-> t]

Undefined == [kind |-> "undefined", t |-> 0]

\* The comparison with >= in place of >: a row expiring now still counts.
ExpiresAtOrAfter(x, now) == x.kind = "iso" /\ x.t >= now

\* item.expires_at > now, now an ISO string: two ISO strings compare as
\* their instants do; a Date against a string compares as NaN, which is false.
ExpiresAfter(x, now) == x.kind = "iso" /\ x.t > now

\* where('expires_at').below(now), now an ISO string: IndexedDB orders every
\* Date key below every String key.
KeyBelow(x, now) == x.kind = "date" \/ (x.kind = "iso" /\ x.t < now)

\* Table.put: the row replaces the one with the same primary key.
PutRow(c, row) == {e \in c : e.id # row.id} \cup {row}

\* setCache(key, data, ttl): the row is keyed by key and Date.now().
SetCacheRow(key, data, ttl, now) ==
    [id |-> <<"set", key, now>>, key |-> key, data |-> data, expires_at |-> IsoTime(now + ttl)]

\* The order of where('key').equals(key): by primary key, `${key}_${Date.now()}`.
FirstRow(rows) == CHOOSE e \in rows : \A f \in rows : e.id[3] <= f.id[3]

\* getCache(key): the first unexpired row of the key, or null.
getCache(c, key, now) ==
    LET rows == {e \in c : e.key = key /\ ExpiresAfter(e.expires_at, now)}
    IN IF rows = {}
       THEN [key |-> key, hit |-> FALSE, data |-> 0, exp |-> 0, at |-> now]
       ELSE [key |-> key, hit |-> TRUE, data |-> FirstRow(rows).data,
             exp |-> FirstRow(rows).expires_at.t, at |-> now]

\* clearExpiredCache: where('expires_at').below(now), then bulkDelete.
ExpiredEntries(c, now) == {e \in c : KeyBelow(e.expires_at, now)}

clearExpiredCache(c, now) == c \ ExpiredEntries(c, now)

(***************************************************************************)
(* getSyncStats and loadSyncStats.  lastSyncAt = -1 stands for null.       *)
(***************************************************************************)
CountStatus(tbl, st) == Cardinality({i \in Ids : tbl[i].status = st})

TableStats(tbl) ==
    [total |-> Cardinality(IdsOf(tbl)),
     synced |-> CountStatus(tbl, "synced"),
     pending |-> CountStatus(tbl, "pending"),
     error |-> CountStatus(tbl, "error")]

MaxOf(S) == CHOOSE m \in S : \A x \in S : x <= m

getSyncStats(loc, q) ==
    [documents |-> TableStats(loc["documents"]),
     projects |-> TableStats(loc["projects"]),
     standardInfo |-> TableStats(loc["standard_info"]),
     syncQueue |-> Len(q),
     lastSyncAt |-> IF IdsOf(loc["documents"]) # {}
                    THEN MaxOf({loc["documents"][i].lsa : i \in IdsOf(loc["documents"])})
                    ELSE -1]

NoStats == [documents |-> TableStats([i \in Ids |-> Absent]),
            projects |-> TableStats([i \in Ids |-> Absent]),
            standardInfo |-> TableStats([i \in Ids |-> Absent]),
            syncQueue |-> -1,
            lastSyncAt |-> -1]

\* loadSyncStats: stats.lastSyncAt ? new Date(stats.lastSyncAt) : null
LoadedLastSyncAt(stats) == IF stats.lastSyncAt > 0 THEN stats.lastSyncAt ELSE 0

(***************************************************************************)
(* The remote gateway.  Every call may fail; a call can succeed only when  *)
(* the remote store can carry it out: an update needs the row, a create    *)
(* of a document needs its project row (documents.project_id references    *)
(* projects.id), and the model needs an unused id to hand out.             *)
(***************************************************************************)
FreshIds(stbl) == {i \in SrvIds : ~stbl[i].present}

FreshId(stbl) == Head(InOrder(FreshIds(stbl)))

CanSucceed(srv, t, row) ==
    IF IsTemp(row.id)
    THEN /\ FreshIds(srv[t]) # {}
         /\ t = "documents" => (row.pid \in SrvIds /\ srv["projects"][row.pid].present)
    ELSE srv[t][row.id].present

\* insert(...).select().single() / update(...).eq('id', id).select().single()
GatewayWrite(srv, t, row) ==
    LET target == IF IsTemp(row.id) THEN FreshId(srv[t]) ELSE row.id
    IN [server |-> [srv EXCEPT ![t][target] =
                        [present |-> TRUE, content |-> row.content, pid |-> row.pid]],
        id |-> target]

\* What the caller in syncData sees as the id of the created row.
\* services/projectService.ts resolves to an envelope {data, error}, so
\* (newProject as any).id is undefined; databaseService.ts resolves to the row.
CreatedIdSeen(t, id) == IF t = "projects" THEN NoId ELSE id

\* Whether a failed call rejects.  services/projectService.ts catches every
\* error and resolves to {data: null, error}; databaseService.ts throws.
FailureThrows(t) == t # "projects"

(***************************************************************************)
(* syncData invocations.  An invocation is at "push" (inside one of the    *)
(* three push loops, todo holding the rows still to push), at "fetch"      *)
(* (before the three fetches of syncFromServer), at "write" (inside the    *)
(* put loops of syncFromServer, tbl naming the next table), at "evict"     *)
(* (before clearExpiredCache) or "done".  sel, errSeen, pushed, failed and *)
(* okd record what the invocation has read and done so far.                *)
(***************************************************************************)
CycleIds == 1..MaxCycles

EmptySnap == [t \in Tables |-> [i \in Ids |-> AbsentSrv]]

FreeCycle ==
    [pc |-> "free", tbl |-> "projects", todo |-> <<>>, snap |-> EmptySnap, pullNow |-> 0,
     sel |-> {}, errSeen |-> {}, pushed |-> {}, failed |-> {}, okd |-> {}]

DoneCycle == [FreeCycle EXCEPT !.pc = "done"]

Running(c) == cycles[c].pc \notin {"free", "done"}

RunningCycles == {c \in CycleIds : Running(c)}

FreeSlots == {c \in CycleIds : cycles[c].pc = "free"}

\* getUserOffline<Table>(user.id) and the filter on sync_status, for table t.
Selected(cy, loc, t) ==
    [cy EXCEPT !.tbl = t,
               !.todo = PendingRows(loc, t),
               !.sel = @ \cup {<<t, i>> : i \in PendingIds(loc, t)},
               !.errSeen = @ \cup {<<t, i>> : i \in {j \in Ids : loc[t][j].status = "error"}}]

\* The reads that lead to the next gateway call: a table without pending
\* rows has an empty loop, and after the third loop comes syncFromServer.
SelectFrom(cy, loc, k) ==
    LET s1 == Selected(cy, loc, TableOrder[1])
        s2 == Selected(IF k <= 1 THEN s1 ELSE cy, loc, TableOrder[2])
        s3 == Selected(IF k <= 2 THEN s2 ELSE cy, loc, TableOrder[3])
    IN IF k <= 1 /\ s1.todo # <<>> THEN [s1 EXCEPT !.pc = "push"]
       ELSE IF k <= 2 /\ s2.todo # <<>> THEN [s2 EXCEPT !.pc = "push"]
       ELSE IF s3.todo # <<>> THEN [s3 EXCEPT !.pc = "push"]
       ELSE [s3 EXCEPT !.pc = "fetch"]

\* The closure values syncData reads in its guard.
CurrentClosure == [user |-> user, isOnline |-> syncState.isOnline, isSyncing |-> syncState.isSyncing]

MountClosure == [user |-> mounted.user, isOnline |-> mounted.isOnline, isSyncing |-> FALSE]

\* if (!user || !syncState.isOnline || syncState.isSyncing) return
GuardPasses(cl) == cl.user # NoUser /\ cl.isOnline /\ ~cl.isSyncing

\* syncData called through a closure cl, applied to a hook state st: either
\* the early return, or setSyncState({isSyncing: true, syncError: null}) and
\* the first reads.  A call that passes the guard needs a free slot.
CallSyncData(cl, st) ==
    IF GuardPasses(cl)
    THEN /\ FreeSlots # {}
         /\ LET c == CHOOSE x \in FreeSlots : \A y \in FreeSlots : x <= y
            IN cycles' = [cycles EXCEPT ![c] = SelectFrom(FreeCycle, local, 1)]
         /\ syncState' = [st EXCEPT !.isSyncing = TRUE, !.syncError = FALSE]
         /\ clock' = clock + 1
    ELSE /\ cycles' = cycles
         /\ syncState' = st
         /\ clock' = clock

(***************************************************************************)
(* Local writes (the UI saving through offlineService).                    *)
(***************************************************************************)
\* project_id values a document can be saved with: the projects in the store.
PidChoices(t, id) ==
    IF t # "documents" THEN {NoId}
    ELSE IF Present(local[t][id]) THEN {local[t][id].pid}
    ELSE IdsOf(local["projects"])

\* save*Offline: document.id ? 'update' : 'create'
QueueOperation(id) == IF id = NoId THEN "create" ELSE "update"

\* saveProjectOffline / saveDocumentOffline / saveStandardInfoOffline with a
\* record that carries an id: put() the pending record, then addToSyncQueue.
SaveOffline(t, id, pid) ==
    /\ mounted.done
    /\ budget.saves < MaxSaves
    /\ user # NoUser
    /\ Present(local[t][id]) \/ IsTemp(id)
    /\ pid \in PidChoices(t, id)
    /\ LET v == hist.saved + 1 IN
         /\ local' = [local EXCEPT ![t][id] = SavedRecord(v, pid, clock)]
         /\ queue' = Append(queue, QueueItem(t, QueueOperation(id), id))
         /\ hist' = [hist EXCEPT !.saved = v,
                                 !.live = (@ \ {local[t][id].content}) \cup {v}]
    /\ budget' = [budget EXCEPT !.saves = @ + 1]
    /\ UNCHANGED <<user, net, syncState, mounted, server, cache, clock, cycles, completionVars>>

\* save*Offline with a record that carries no id: the tables have the inbound
\* primary key 'id' without auto-increment, put() of an object without it
\* rejects (DataError), and the call rejects before addToSyncQueue.
SaveWithoutId(t) ==
    /\ mounted.done
    /\ user # NoUser
    /\ UNCHANGED vars

\* getDocuments(userId): the documents of the user that are in the table
\* (the query applies no filter on deleted_at).
getDocuments(loc) == IdsOf(loc["documents"])

\* deleteDocument(userId, documentId): Table.delete, then addToSyncQueue
\* with operation 'delete'.  It counts as one of the MaxSaves local writes.
DeleteDocument(id) ==
    /\ mounted.done
    /\ budget.saves < MaxSaves
    /\ user # NoUser
    /\ id \in getDocuments(local)
    /\ local' = [local EXCEPT !["documents"][id] = Absent]
    /\ queue' = Append(queue, QueueItem("documents", "delete", id))
    /\ hist' = [hist EXCEPT !.live = @ \ {local["documents"][id].content}]
    /\ budget' = [budget EXCEPT !.saves = @ + 1]
    /\ UNCHANGED <<user, net, syncState, mounted, server, cache, clock, cycles, completionVars>>

(***************************************************************************)
(* Sync triggers (the effects of useOfflineSync and triggerSync).          *)
(***************************************************************************)
\* The callback registered with onNetworkChange by the effect with deps [],
\* which therefore keeps the user and the syncData of the first render.
NetworkChange ==
    /\ mounted.done
    /\ budget.net < MaxNetFlips
    /\ net' = ~net
    /\ budget' = [budget EXCEPT !.net = @ + 1]
    /\ LET st == [syncState EXCEPT !.isOnline = net'] IN
         IF net' /\ mounted.user # NoUser
         THEN CallSyncData(MountClosure, st)
         ELSE /\ syncState' = st
              /\ cycles' = cycles
              /\ clock' = clock
    /\ UNCHANGED <<user, mounted, local, queue, server, cache, hist, completionVars>>

\* The effect with deps [user], run when useAuth().user changes (sign-in,
\* sign-out, or a new user object for the same session).
AuthChange(u) ==
    /\ mounted.done
    /\ budget.auth < MaxAuth
    /\ u # NoUser \/ user # NoUser
    /\ user' = u
    /\ budget' = [budget EXCEPT !.auth = @ + 1]
    /\ IF u # NoUser
       THEN LET stats == getSyncStats(local, queue)
                st == [syncState EXCEPT !.syncStats = stats,
                                        !.lastSyncAt = LoadedLastSyncAt(stats)]
            IN IF syncState.isOnline
               THEN CallSyncData([CurrentClosure EXCEPT !.user = u], st)
               ELSE /\ syncState' = st
                    /\ cycles' = cycles
                    /\ clock' = clock
       ELSE /\ syncState' = [syncState EXCEPT !.lastSyncAt = 0, !.syncStats = NoStats,
                                              !.syncError = FALSE]
            /\ cycles' = cycles
            /\ clock' = clock
    /\ UNCHANGED <<net, mounted, local, queue, server, cache, hist, completionVars>>

\* triggerSync: if (syncState.isOnline && user) syncData()
TriggerSync ==
    /\ mounted.done
    /\ syncState.isOnline /\ user # NoUser
    /\ CallSyncData(CurrentClosure, syncState)
    /\ UNCHANGED <<user, net, mounted, local, queue, server, cache, budget, hist, completionVars>>

(***************************************************************************)
(* The steps of one syncData invocation.                                   *)
(***************************************************************************)
\* An end of syncData that leaves isSyncing as it is.
FinishedStillSyncing(st, loc, q, failedCycle, now) ==
    LET stats == getSyncStats(loc, q) IN
    [st EXCEPT !.syncError = IF failedCycle THEN TRUE ELSE @,
               !.syncStats = stats,
               !.lastSyncAt = LoadedLastSyncAt(stats)]

\* The end of syncData: setSyncState({isSyncing: false, ...}) on either path,
\* then loadSyncStats().
Finished(st, loc, q, failedCycle, now) ==
    LET stats == getSyncStats(loc, q) IN
    [st EXCEPT !.isSyncing = FALSE,
               !.syncError = IF failedCycle THEN TRUE ELSE @,
               !.syncStats = stats,
               !.lastSyncAt = LoadedLastSyncAt(stats)]

\* One iteration of a push loop: the gateway call, the id replacement, the
\* status update, and the per-record catch.  ok is the gateway's answer.
Push(c, ok) ==
    LET cy == cycles[c]
        t == cy.tbl
        row == Head(cy.todo)
        gw == IF ok THEN GatewayWrite(server, t, row) ELSE [server |-> server, id |-> NoId]
        rejected == ~ok /\ FailureThrows(t)
        replaces == IsTemp(row.id) /\ t \in {"projects", "documents"}
        rep == IF ~rejected /\ replaces
               THEN ReplaceId(local, t, row.id, CreatedIdSeen(t, gw.id))
               ELSE [local |-> local, threw |-> FALSE]
        caught == rejected \/ rep.threw
        us == IF caught
              THEN updateSyncStatus(local, queue, t, row.id, "error", TRUE, clock)
              ELSE updateSyncStatus(rep.local, queue, t, row.id, "synced", FALSE, clock)
        noted == [cy EXCEPT !.pushed = @ \cup {<<t, row.id>>},
                            !.failed = IF ok THEN @ ELSE @ \cup {<<t, row.id>>},
                            !.okd = IF ok THEN @ \cup {<<t, row.id>>} ELSE @,
                            !.todo = Tail(@)]
    IN /\ cy.pc = "push"
       /\ ok => CanSucceed(server, t, row)
       /\ server' = gw.server
       /\ local' = us.local
       /\ queue' = us.queue
       /\ hist' = IF ok THEN [hist EXCEPT !.delivered = @ \cup {row.content}] ELSE hist
       /\ IF us.threw
          THEN /\ cycles' = [cycles EXCEPT ![c] = DoneCycle]
               /\ syncState' = Finished(syncState, us.local, us.queue, TRUE, clock)
          ELSE /\ cycles' = [cycles EXCEPT ![c] =
                                IF noted.todo # <<>> THEN noted
                                ELSE IF t = "standard_info" THEN [noted EXCEPT !.pc = "fetch"]
                                ELSE SelectFrom(noted, us.local, TableIndex(t) + 1)]
               /\ syncState' = syncState
       /\ UNCHANGED <<user, net, mounted, cache, clock, budget, completionVars>>

\* syncFromServer, the three fetches (Promise.all): a rejection reaches the
\* outer catch of syncData.
Fetch(c, ok) ==
    LET cy == cycles[c] IN
    /\ cy.pc = "fetch"
    /\ IF ok
       THEN /\ cycles' = [cycles EXCEPT ![c] =
                            [cy EXCEPT !.pc = "write", !.tbl = "projects",
                                       !.snap = server, !.pullNow = clock]]
            /\ syncState' = syncState
       ELSE /\ cycles' = [cycles EXCEPT ![c] = DoneCycle]
            /\ syncState' = Finished(syncState, local, queue, TRUE, clock)
    /\ UNCHANGED <<user, net, mounted, local, queue, server, cache, clock, budget, hist, completionVars>>

\* The events syncFromServer dispatches on window when its loops are done:
\* it dispatches none (no code of the repository dispatches an event).
PullDispatches == {}

\* syncFromServer, one loop of put() calls over the fetched rows of a table;
\* after the third loop the function returns.
Write(c) ==
    LET cy == cycles[c]
        t == cy.tbl
    IN /\ cy.pc = "write"
       /\ local' = [local EXCEPT ![t] = PullTable(local[t], cy.snap[t], cy.pullNow)]
       /\ cycles' = [cycles EXCEPT ![c] =
                        IF t = "standard_info" THEN [cy EXCEPT !.pc = "evict", !.snap = EmptySnap]
                        ELSE [cy EXCEPT !.tbl = TableOrder[TableIndex(t) + 1]]]
       /\ hist' = IF t = "standard_info"
                  THEN [hist EXCEPT !.events = @ \cup PullDispatches]
                  ELSE hist
       /\ UNCHANGED <<user, net, syncState, mounted, queue, server, cache, clock, budget, completionVars>>

\* clearExpiredCache, then the end of syncData.
Evict(c) ==
    LET cy == cycles[c] IN
    /\ cy.pc = "evict"
    /\ cache' = clearExpiredCache(cache, clock)
    /\ syncState' = Finished(syncState, local, queue, FALSE, clock)
    /\ cycles' = [cycles EXCEPT ![c] = DoneCycle]
    /\ UNCHANGED <<user, net, mounted, local, queue, server, clock, budget, hist, completionVars>>

(***************************************************************************)
(* Mounting the hook: the first render and its two effects.                *)
(***************************************************************************)
Mount ==
    /\ ~mounted.done
    /\ mounted' = [done |-> TRUE, user |-> user, isOnline |-> syncState.isOnline]
    /\ IF user # NoUser
       THEN LET stats == getSyncStats(local, queue)
                st == [syncState EXCEPT !.syncStats = stats,
                                        !.lastSyncAt = LoadedLastSyncAt(stats)]
            IN IF syncState.isOnline
               THEN CallSyncData(CurrentClosure, st)
               ELSE /\ syncState' = st
                    /\ cycles' = cycles
                    /\ clock' = clock
       ELSE /\ syncState' = [syncState EXCEPT !.lastSyncAt = 0, !.syncStats = NoStats,
                                              !.syncError = FALSE]
            /\ cycles' = cycles
            /\ clock' = clock
    /\ UNCHANGED <<user, net, local, queue, server, cache, budget, hist, completionVars>>

(***************************************************************************)
(* The useCompletion hook.  A call of its generateCompletion is "debouncing" *)
(* (its promise is created and its timer set), "requesting" (the service   *)
(* call is awaited), "resolved" or "rejected".                             *)
(***************************************************************************)
MaxHookCalls == 3     \* calls of the hook's generateCompletion
MaxHookCancels == 1   \* calls of the hook's cancelCompletion

HookCalls == 1..MaxHookCalls

\* useState({text: '', loading: false, error: null}), useState('') for
\* requestKey and the two refs; effectKey is the requestKey the cleanup
\* returned by the mounted effect closes over.
NoHook ==
    [calls |-> [i \in HookCalls |-> "none"], timerRef |-> 0, armed |-> {},
     loading |-> FALSE, debounceMs |-> 300, cancels |-> 0,
     requestKey |-> "", effectKey |-> ""]

\* cleanup: clearTimeout(debounceTimerRef.current).  (What it asks of the
\* service is cancelCompletion, see HookCleanup.)
ClearTimer(h) == [h EXCEPT !.armed = @ \ {h.timerRef}]

(***************************************************************************)
(* The sync engine's specification.                                        *)
(***************************************************************************)
SyncedRow(pid) == [status |-> "synced", content |-> 0, pid |-> pid, lsa |-> 1, lua |-> 1]

ServerRow(pid) == [present |-> TRUE, content |-> 0, pid |-> pid]

InitIds == [t \in Tables |-> IF t = "documents" THEN {"srv_1", "srv_2"} ELSE {"srv_1"}]

InitPid(t) == IF t = "documents" THEN "srv_1" ELSE NoId

InitCache == {SetCacheRow("k1", 1, 0, 1), SetCacheRow("k2", 2, MaxCycles + 2, 1)}

CompletionIdle ==
    /\ memCache = [k \in {} |-> 0]
    /\ pendingRequests = [k \in {} |-> 0]
    /\ abortControllers = [k \in {} |-> 0]
    /\ reqs = <<>>
    /\ callers = <<>>
    /\ got = [key |-> "k1", hit |-> FALSE, data |-> 0, exp |-> 0, at |-> 0]

Init ==
    /\ user \in {NoUser, TheUser}
    /\ net \in BOOLEAN
    /\ syncState = [isOnline |-> net, isSyncing |-> FALSE, lastSyncAt |-> 0,
                    syncError |-> FALSE, syncStats |-> NoStats]
    /\ mounted = [done |-> FALSE, user |-> NoUser, isOnline |-> FALSE]
    /\ local = [t \in Tables |-> [i \in Ids |->
                    IF i \in InitIds[t] THEN SyncedRow(InitPid(t)) ELSE Absent]]
    /\ server = [t \in Tables |-> [i \in Ids |->
                    IF i \in InitIds[t] THEN ServerRow(InitPid(t)) ELSE AbsentSrv]]
    /\ queue = <<>>
    /\ cache = InitCache
    /\ clock = 1
    /\ cycles = [c \in CycleIds |-> FreeCycle]
    /\ budget = [saves |-> 0, net |-> 0, auth |-> 0, sets |-> 0, cancels |-> 0, client |-> "sync"]
    /\ hist = [saved |-> 0, delivered |-> {}, live |-> {}, events |-> {}]
    /\ CompletionIdle
    /\ hookState = NoHook

Next ==
    \/ Mount
    \/ \E t \in Tables, id \in Ids, pid \in Ids \cup {NoId} : SaveOffline(t, id, pid)
    \/ \E id \in Ids : DeleteDocument(id)
    \/ \E t \in Tables : SaveWithoutId(t)
    \/ NetworkChange
    \/ \E u \in {NoUser, TheUser} : AuthChange(u)
    \/ TriggerSync
    \/ \E c \in CycleIds, ok \in BOOLEAN : Push(c, ok)
    \/ \E c \in CycleIds, ok \in BOOLEAN : Fetch(c, ok)
    \/ \E c \in CycleIds : Write(c)
    \/ \E c \in CycleIds : Evict(c)

Spec == Init /\ [][Next]_vars

\* The next step of an invocation of syncData: every gateway and storage
\* call it awaits returns or throws.
CycleStep(c) ==
    \/ \E ok \in BOOLEAN : Push(c, ok)
    \/ \E ok \in BOOLEAN : Fetch(c, ok)
    \/ Write(c)
    \/ Evict(c)

MaxLiveSaves == 1   \* local writes in a run of SpecLive

\* The sync engine with every awaited call settling, for runs with at most
\* MaxLiveSaves local writes, started signed in.
InitLive == Init /\ user = TheUser

LiveSaveLeft == budget.saves < MaxLiveSaves

NextLive ==
    \/ Mount
    \/ LiveSaveLeft /\ \E t \in Tables, id \in Ids, pid \in Ids \cup {NoId} : SaveOffline(t, id, pid)
    \/ LiveSaveLeft /\ \E id \in Ids : DeleteDocument(id)
    \/ \E t \in Tables : SaveWithoutId(t)
    \/ NetworkChange
    \/ \E u \in {NoUser, TheUser} : AuthChange(u)
    \/ TriggerSync
    \/ \E c \in CycleIds : CycleStep(c)

SpecLive == InitLive /\ [][NextLive]_vars /\ \A c \in CycleIds : WF_vars(CycleStep(c))

(***************************************************************************)
(* The completion service (CompletionService) and the cache table used     *)
(* directly (setCache / getCache).  Time is counted in units of 12 hours.  *)
(***************************************************************************)
MaxClock == 3       \* how far the clock advances
MaxCallers == 3     \* calls of generateCompletion
MaxSets == 2        \* calls of setCache
MaxCancels == 1     \* calls of cancelCompletion / clearCache / the hook's cleanup

\* A run of SpecCache follows one client of the cache table: code that calls
\* setCache / getCache directly (budget.client = "table"), or the completion
\* service (budget.client = "completion").  The two use disjoint keys.

CompletionTTL == 2  \* 24 * 60 * 60 * 1000 ms

Prompts == {"a", "a ", "b"}

TokenChoices == {1000}

Requests == [prompt : Prompts, maxTokens : TokenChoices]

\* String.prototype.trim
Trim(p) == IF p = "a " THEN "a" ELSE p

\* generateCacheKey: btoa(JSON.stringify({prompt.trim(), context?.trim(),
\* language, maxTokens})), an injective encoding of the normalised fields.
generateCacheKey(r) ==
    IF r.maxTokens = 1000
    THEN (IF Trim(r.prompt) = "a" THEN "a:1000" ELSE "b:1000")
    ELSE (IF Trim(r.prompt) = "a" THEN "a:other" ELSE "b:other")

CacheKeys == {generateCacheKey(r) : r \in Requests}

\* useCompletion's request key: btoa(JSON.stringify({prompt.trim(),
\* context?.trim(), language})), the encoding of an object without maxTokens.
useCompletionKey(r) == IF Trim(r.prompt) = "a" THEN "a" ELSE "b"

\* saveCachedCompletion: key: `completion_${cache.id}`
CompletionRowKey(k) == IF k = "a:1000" THEN "completion_a:1000"
                       ELSE IF k = "b:1000" THEN "completion_b:1000"
                       ELSE IF k = "a:other" THEN "completion_a:other"
                       ELSE "completion_b:other"

UserKeys == {"k1", "k2"}

Texts == {1, 2}

Ttls == {-1, 2}

CallerIds == 1..MaxCallers

NoEntry == [present |-> FALSE, response |-> 0, expiresAt |-> Undefined]

\* saveCompletionCache: the CompletionCache object put in the Map.
CompletionEntry(text, now) ==
    [present |-> TRUE, response |-> text, expiresAt |-> DateTime(now + CompletionTTL)]

\* saveCachedCompletion: the row written for a CompletionCache object.
CompletionRow(k, text, now) ==
    [id |-> <<"completion", k, 0>>, key |-> CompletionRowKey(k), data |-> text,
     expires_at |-> DateTime(now + CompletionTTL)]

\* loadCacheFromStorage: each stored row is put in the Map as it is, under
\* its id; a row has neither a response nor an expiresAt field.
LoadedEntry == [present |-> TRUE, response |-> 0, expiresAt |-> Undefined]

\* cache.expiresAt > new Date(): two Dates compare as their instants do,
\* undefined against a Date compares as NaN, which is false.
DateAfter(x, now) == x.kind = "date" /\ x.t > now

\* cache.expiresAt <= now (cleanupExpiredCache, getCacheStats).
DateAtOrBefore(x, now) == x.kind = "date" /\ x.t <= now

\* getCachedCompletion(key)
getCachedCompletion(mc, k, now) ==
    IF mc[k].present /\ DateAfter(mc[k].expiresAt, now)
    THEN [hit |-> TRUE, text |-> mc[k].response, exp |-> mc[k].expiresAt.t, at |-> now]
    ELSE [hit |-> FALSE, text |-> 0, exp |-> 0, at |-> now]

\* cleanupExpiredCache
cleanupExpiredCache(mc, now) ==
    [k \in CacheKeys |->
        IF mc[k].present /\ DateAtOrBefore(mc[k].expiresAt, now) THEN NoEntry ELSE mc[k]]

NoCall == [pc |-> "idle", key |-> "a:1000", cached |-> [hit |-> FALSE, text |-> 0, exp |-> 0, at |-> 0],
           req |-> 0, result |-> 0, requestKey |-> ""]

NoReq == [state |-> "unused", key |-> "a:1000", aborted |-> FALSE]

UsedReqs == {q \in DOMAIN reqs : reqs[q].state # "unused"}

InFlight == {q \in DOMAIN reqs : reqs[q].state = "inflight"}

\* generateCompletion up to its await: the key, the look in pendingRequests
\* (a hit returns that promise), and the call of getCachedCompletion.
Generate(c, r) ==
    LET k == generateCacheKey(r) IN
    /\ budget.client = "completion"
    /\ callers[c].pc = "idle"
    /\ callers' = [callers EXCEPT ![c] =
            IF pendingRequests[k] # 0
            THEN [NoCall EXCEPT !.pc = "waiting", !.key = k, !.req = pendingRequests[k],
                                !.requestKey = useCompletionKey(r)]
            ELSE [NoCall EXCEPT !.pc = "lookup", !.key = k,
                                !.cached = getCachedCompletion(memCache, k, clock),
                                !.requestKey = useCompletionKey(r)]]
    /\ UNCHANGED <<memCache, pendingRequests, abortControllers, reqs, got, cache, clock, budget, syncVars>>

\* generateCompletion after the await: return the cached response, or
\* register an AbortController, start makeAPIRequest and register the promise.
AfterLookup(c) ==
    LET k == callers[c].key
        q == CHOOSE x \in DOMAIN reqs : reqs[x].state = "unused" /\
                 \A y \in DOMAIN reqs : reqs[y].state = "unused" => x <= y
    IN /\ callers[c].pc = "lookup"
       /\ IF callers[c].cached.hit
          THEN /\ callers' = [callers EXCEPT ![c] = [NoCall EXCEPT !.pc = "returned", !.key = k,
                                                    !.result = callers[c].cached.text,
                                                    !.requestKey = callers[c].requestKey]]
               /\ UNCHANGED <<pendingRequests, abortControllers, reqs>>
          ELSE /\ \E x \in DOMAIN reqs : reqs[x].state = "unused"
               /\ reqs' = [reqs EXCEPT ![q] = [state |-> "inflight", key |-> k, aborted |-> FALSE]]
               /\ abortControllers' = [abortControllers EXCEPT ![k] = q]
               /\ pendingRequests' = [pendingRequests EXCEPT ![k] = q]
               /\ callers' = [callers EXCEPT ![c] = [NoCall EXCEPT !.pc = "waiting", !.key = k, !.req = q,
                                                    !.requestKey = callers[c].requestKey]]
       /\ UNCHANGED <<memCache, got, cache, clock, budget, syncVars>>

\* The finally handler of the request promise: delete by key.
FinallyCleanup(m, k) == [m EXCEPT ![k] = 0]

\* The remote call answers: then-handler (saveCompletionCache), finally
\* handler, and every caller holding the promise gets the response.
Resolve(q, text) ==
    LET k == reqs[q].key IN
    /\ reqs[q].state = "inflight" /\ ~reqs[q].aborted
    /\ reqs' = [reqs EXCEPT ![q].state = "resolved"]
    /\ memCache' = [memCache EXCEPT ![k] = CompletionEntry(text, clock)]
    /\ cache' = PutRow(cache, CompletionRow(k, text, clock))
    /\ pendingRequests' = FinallyCleanup(pendingRequests, k)
    /\ abortControllers' = FinallyCleanup(abortControllers, k)
    /\ callers' = [c \in CallerIds |->
            IF callers[c].pc = "waiting" /\ callers[c].req = q
            THEN [callers[c] EXCEPT !.pc = "returned", !.result = text]
            ELSE callers[c]]
    /\ UNCHANGED <<got, clock, budget, syncVars>>

\* The remote call fails (network error, response not ok, abort): the
\* finally handler runs and every caller holding the promise gets the error.
Reject(q) ==
    LET k == reqs[q].key IN
    /\ reqs[q].state = "inflight"
    /\ reqs' = [reqs EXCEPT ![q].state = "rejected"]
    /\ pendingRequests' = FinallyCleanup(pendingRequests, k)
    /\ abortControllers' = FinallyCleanup(abortControllers, k)
    /\ callers' = [c \in CallerIds |->
            IF callers[c].pc = "waiting" /\ callers[c].req = q
            THEN [callers[c] EXCEPT !.pc = "failed"]
            ELSE callers[c]]
    /\ UNCHANGED <<memCache, got, cache, clock, budget, syncVars>>

\* A cancel that ignores its key: every controller is aborted and both
\* maps are cleared.
cancelCompletionAnyKey(k) ==
    /\ budget.client = "completion"
    /\ budget.cancels < MaxCancels
    /\ budget' = [budget EXCEPT !.cancels = @ + 1]
    /\ reqs' = [q \in DOMAIN reqs |->
            IF \E k2 \in CacheKeys : abortControllers[k2] = q
            THEN [reqs[q] EXCEPT !.aborted = TRUE] ELSE reqs[q]]
    /\ abortControllers' = [k2 \in CacheKeys |-> 0]
    /\ pendingRequests' = [k2 \in CacheKeys |-> 0]
    /\ UNCHANGED <<memCache, callers, got, cache, clock, syncVars>>

\* cancelCompletion(requestKey)
cancelCompletion(k) ==
    /\ budget.client = "completion"
    /\ budget.cancels < MaxCancels
    /\ budget' = [budget EXCEPT !.cancels = @ + 1]
    /\ IF abortControllers[k] # 0
       THEN /\ reqs' = [reqs EXCEPT ![abortControllers[k]].aborted = TRUE]
            /\ abortControllers' = [abortControllers EXCEPT ![k] = 0]
            /\ pendingRequests' = [pendingRequests EXCEPT ![k] = 0]
       ELSE UNCHANGED <<reqs, abortControllers, pendingRequests>>
    /\ UNCHANGED <<memCache, callers, got, cache, clock, syncVars>>

\* useCompletion's cleanup once setRequestKey(key) has taken effect, for the
\* hook whose call is c: completionService.cancelCompletion(requestKey).
\* abortControllers.get() of a key that is not in the Map is undefined.
HookCleanup(c) ==
    LET k == callers[c].requestKey
        controller == IF k \in DOMAIN abortControllers THEN abortControllers[k] ELSE 0
    IN /\ budget.client = "completion"
       /\ budget.cancels < MaxCancels
       /\ budget' = [budget EXCEPT !.cancels = @ + 1]
       /\ callers[c].pc # "idle"
       /\ IF controller # 0
          THEN /\ reqs' = [reqs EXCEPT ![controller].aborted = TRUE]
               /\ abortControllers' = [abortControllers EXCEPT ![k] = 0]
               /\ pendingRequests' = [pendingRequests EXCEPT ![k] = 0]
          ELSE UNCHANGED <<reqs, abortControllers, pendingRequests>>
       /\ UNCHANGED <<memCache, callers, got, cache, clock, syncVars>>

\* cancelCompletion() without a key: abort every controller, clear both maps.
cancelAll ==
    /\ budget.client = "completion"
    /\ budget.cancels < MaxCancels
    /\ budget' = [budget EXCEPT !.cancels = @ + 1]
    /\ reqs' = [q \in DOMAIN reqs |->
            IF \E k \in CacheKeys : abortControllers[k] = q
            THEN [reqs[q] EXCEPT !.aborted = TRUE] ELSE reqs[q]]
    /\ abortControllers' = [k \in CacheKeys |-> 0]
    /\ pendingRequests' = [k \in CacheKeys |-> 0]
    /\ UNCHANGED <<memCache, callers, got, cache, clock, syncVars>>

\* clearCache: cache.clear() and clearCachedCompletions().
clearCache ==
    /\ budget.client = "completion"
    /\ budget.cancels < MaxCancels
    /\ budget' = [budget EXCEPT !.cancels = @ + 1]
    /\ memCache' = [k \in CacheKeys |-> NoEntry]
    /\ cache' = {e \in cache : e.id[1] # "completion"}
    /\ UNCHANGED <<pendingRequests, abortControllers, reqs, callers, got, clock, syncVars>>

\* The interval set up by setupCacheCleanup.
CleanupTimer ==
    /\ memCache' = cleanupExpiredCache(memCache, clock)
    /\ memCache' # memCache
    /\ UNCHANGED <<pendingRequests, abortControllers, reqs, callers, got, cache, clock, budget, syncVars>>

\* offlineService.setCache(key, data, ttl)
SetCache(k, d, ttl) ==
    /\ budget.client = "table"
    /\ budget.sets < MaxSets
    /\ budget' = [budget EXCEPT !.sets = @ + 1]
    /\ cache' = PutRow(cache, SetCacheRow(k, d, ttl, clock))
    /\ UNCHANGED <<completionVars, clock, syncVars>>

\* offlineService.getCache(key)
GetCache(k) ==
    /\ budget.client = "table"
    /\ got' = getCache(cache, k, clock)
    /\ UNCHANGED <<memCache, pendingRequests, abortControllers, reqs, callers, cache, clock, budget, syncVars>>

\* offlineService.clearExpiredCache() (the sync cycle calls it)
ClearExpired ==
    /\ cache' = clearExpiredCache(cache, clock)
    /\ cache' # cache
    /\ UNCHANGED <<completionVars, clock, budget, syncVars>>

Tick ==
    /\ clock < MaxClock
    /\ clock' = clock + 1
    /\ UNCHANGED <<completionVars, cache, budget, syncVars>>

\* A row a previous session stored for a completion.
StoredRows == {{}, {CompletionRow("a:1000", 1, 0)}}

SyncIdle ==
    /\ user = TheUser
    /\ net = TRUE
    /\ syncState = [isOnline |-> TRUE, isSyncing |-> FALSE, lastSyncAt |-> 0,
                    syncError |-> FALSE, syncStats |-> NoStats]
    /\ mounted = [done |-> FALSE, user |-> NoUser, isOnline |-> FALSE]
    /\ local = [t \in Tables |-> [i \in Ids |-> Absent]]
    /\ server = [t \in Tables |-> [i \in Ids |-> AbsentSrv]]
    /\ queue = <<>>
    /\ cycles = [c \in CycleIds |-> FreeCycle]
    /\ hist = [saved |-> 0, delivered |-> {}, live |-> {}, events |-> {}]

\* The module is loaded: the constructor has run loadCacheFromStorage.
InitCacheSpec ==
    /\ SyncIdle
    /\ clock = 1
    /\ budget \in [saves : {0}, net : {0}, auth : {0}, sets : {0}, cancels : {0},
                   client : {"table", "completion"}]
    /\ cache \in StoredRows
    /\ memCache = [k \in CacheKeys |->
            IF \E e \in cache : e.id = <<"completion", k, 0>> THEN LoadedEntry ELSE NoEntry]
    /\ pendingRequests = [k \in CacheKeys |-> 0]
    /\ abortControllers = [k \in CacheKeys |-> 0]
    /\ reqs = [q \in CallerIds |-> NoReq]
    /\ callers = [c \in CallerIds |-> NoCall]
    /\ got = [key |-> "k1", hit |-> FALSE, data |-> 0, exp |-> 0, at |-> 0]
    /\ hookState = NoHook

NextCache ==
    \/ \E c \in CallerIds, r \in Requests : Generate(c, r)
    \/ \E c \in CallerIds : AfterLookup(c)
    \/ \E q \in CallerIds, text \in Texts : Resolve(q, text)
    \/ \E q \in CallerIds : Reject(q)
    \/ \E k \in CacheKeys : cancelCompletion(k)
    \/ \E c \in CallerIds : HookCleanup(c)
    \/ cancelAll
    \/ clearCache
    \/ CleanupTimer
    \/ \E k \in UserKeys, d \in Texts, ttl \in Ttls : SetCache(k, d, ttl)
    \/ \E k \in UserKeys : GetCache(k)
    \/ ClearExpired
    \/ Tick

SpecCache == InitCacheSpec /\ [][NextCache]_vars

(***************************************************************************)
(* The useCompletion hook's specification: one mounted hook, the service   *)
(* behind it seen as a call that resolves or rejects.                      *)
(***************************************************************************)
hookRest == <<user, net, syncState, mounted, local, queue, server, cache, clock, cycles, budget,
              hist, memCache, pendingRequests, abortControllers, reqs, callers, got>>

\* The calls are numbered in the order they are made.
NextCall(h) == CHOOSE i \in HookCalls : h.calls[i] = "none" /\ \A j \in HookCalls : j < i => h.calls[j] # "none"

\* The hook's generateCompletion (no stream): cleanup(), setRequestKey, then
\* with a debounce setState({loading: true}) and a promise whose executor
\* sets the timer, without one setState({loading: true}) and the service call.
HookGenerate(r) ==
    /\ \E i \in HookCalls : hookState.calls[i] = "none"
    /\ LET i == NextCall(hookState)
           h == [ClearTimer(hookState) EXCEPT !.requestKey = useCompletionKey(r)]
       IN hookState' =
            IF h.debounceMs > 0
            THEN [h EXCEPT !.calls[i] = "debouncing", !.timerRef = i, !.armed = @ \cup {i},
                           !.loading = TRUE]
            ELSE [h EXCEPT !.calls[i] = "requesting", !.loading = TRUE]
    /\ UNCHANGED hookRest

\* useEffect(() => cleanup, [cleanup]) with cleanup a callback of
\* [requestKey]: the render after setRequestKey changed the key runs the
\* cleanup of the previous render, which clears the timer the ref holds now.
EffectCleanup ==
    /\ hookState.requestKey # hookState.effectKey
    /\ hookState' = [ClearTimer(hookState) EXCEPT !.effectKey = hookState.requestKey]
    /\ UNCHANGED hookRest

\* The hook's cancelCompletion: cleanup(), setState({loading: false}).
HookCancel ==
    /\ hookState.cancels < MaxHookCancels
    /\ hookState' = [ClearTimer(hookState) EXCEPT !.loading = FALSE, !.cancels = @ + 1]
    /\ UNCHANGED hookRest

\* The debounce timer of call i fires: the callback awaits
\* completionService.generateCompletion(request).
TimerFires(i) ==
    /\ i \in hookState.armed
    /\ hookState' = [hookState EXCEPT !.armed = @ \ {i}, !.calls[i] = "requesting"]
    /\ UNCHANGED hookRest

\* The service call of call i settles: setState({..., loading: false}) on
\* either path, then resolve(result) or reject(error) (return or throw
\* without a debounce).
ServiceSettles(i, ok) ==
    /\ hookState.calls[i] = "requesting"
    /\ hookState' = [hookState EXCEPT !.calls[i] = IF ok THEN "resolved" ELSE "rejected",
                                      !.loading = FALSE]
    /\ UNCHANGED hookRest

InitHook ==
    /\ SyncIdle
    /\ CompletionIdle
    /\ cache = {}
    /\ clock = 1
    /\ budget = [saves |-> 0, net |-> 0, auth |-> 0, sets |-> 0, cancels |-> 0, client |-> "hook"]
    /\ hookState \in {NoHook, [NoHook EXCEPT !.debounceMs = 0]}

NextHook ==
    \/ \E r \in Requests : HookGenerate(r)
    \/ EffectCleanup
    \/ HookCancel
    \/ \E i \in HookCalls : TimerFires(i)
    \/ \E i \in HookCalls, ok \in BOOLEAN : ServiceSettles(i, ok)

\* React renders after a state change, timers fire and the service settles
\* every call.
SpecHook ==
    /\ InitHook
    /\ [][NextHook]_vars
    /\ WF_vars(EffectCleanup)
    /\ \A i \in HookCalls : WF_vars(TimerFires(i)) /\ WF_vars(\E ok \in BOOLEAN : ServiceSettles(i, ok))

(***************************************************************************)
(* Properties of the sync engine, for the specification Spec.             *)
(***************************************************************************)

\* C1: for every interleaving of sync triggers at most one execution of
\* syncData is between its start and its end, and a trigger that arrives
\* while a cycle is running starts nothing (no slot leaves "free").
C1_AtMostOneCycle ==
    [][/\ Cardinality({c \in CycleIds : cycles'[c].pc \notin {"free", "done"}}) <= 1
       /\ RunningCycles # {} =>
            \A c \in CycleIds : cycles[c].pc = "free" => cycles'[c].pc = "free"]_vars

\* The network callback fires with a cycle in progress and starts another.
C1_OverlappingCycles == Cardinality(RunningCycles) = 2

\* C2: once a cycle has pushed a record with a placeholder id, the gateway
\* create has succeeded and the pull has completed, the local table holds no
\* record under the placeholder id (other than one saved again since).
C2_PlaceholderReplaced ==
    [][\A c \in CycleIds :
         (cycles[c].pc = "write" /\ cycles'[c].pc = "evict") =>
            \A t \in Tables, i \in TempIds :
               <<t, i>> \in cycles[c].okd =>
                  \/ ~Present(local'[t][i])
                  \/ local'[t][i].status = "pending"]_vars

\* A created standard_info record is still held under its placeholder id,
\* marked synced, beside the row the pull wrote for it.
C2_PlaceholderKept ==
    \E c \in CycleIds :
        /\ cycles[c].pc = "evict"
        /\ <<"standard_info", "temp_1">> \in cycles[c].okd
        /\ local["standard_info"]["temp_1"].status = "synced"
        /\ \E j \in SrvIds : /\ Present(local["standard_info"][j])
                             /\ local["standard_info"][j].content =
                                    local["standard_info"]["temp_1"].content

\* C3: when the gateway call for a pending document fails during the push
\* loop, the document ends with sync_status error, the retry_count of its
\* queue entries grows by exactly 1, no other entry's retry_count changes,
\* and the loop goes on to the other records (the cycle does not end there).
\* Stated for a cycle that runs alone.
C3_PartialFailureIsolation ==
    [][\A c \in CycleIds :
         (Push(c, FALSE) /\ cycles[c].tbl = "documents" /\ RunningCycles = {c}) =>
            LET id == Head(cycles[c].todo).id IN
            /\ local'["documents"][id].status = "error"
            /\ Len(queue') = Len(queue)
            /\ \A k \in 1..Len(queue) :
                  queue'[k].retry_count =
                     queue[k].retry_count + (IF queue[k].original_id = id THEN 1 ELSE 0)
            /\ cycles'[c].pc # "done"]_vars

\* C5: every saved content that no later save of the same record replaced
\* has been delivered to the gateway by a push, or is still held locally by
\* a record with sync_status pending or error.
C5_NoLocalWriteLost ==
    \A v \in hist.live :
        \/ v \in hist.delivered
        \/ \E t \in Tables, i \in Ids :
              /\ local[t][i].content = v
              /\ local[t][i].status \in {"pending", "error"}

\* C6: a record becomes synced only in a step that is a successful gateway
\* call of a push or a write of the pull, and a push whose gateway call
\* reported an error does not leave the record synced.
C6_SyncedOnlyAfterSuccess ==
    [][/\ \A t \in Tables, i \in Ids :
            (local'[t][i].status = "synced" /\ local[t][i].status # "synced") =>
               \E c \in CycleIds : Write(c) \/ Push(c, TRUE)
       /\ \A c \in CycleIds :
            Push(c, FALSE) =>
               local'[cycles[c].tbl][Head(cycles[c].todo).id].status # "synced"]_vars

\* C7: each loop of the pull writes every row the gateway returned for the
\* table under its id, with sync_status synced and last_sync_at and
\* local_updated_at set to the time of the pull, leaves every row whose id
\* was not returned exactly as it was, and touches no other table nor the
\* sync queue.
C7_PullOverwritesReturnedOnly ==
    [][\A c \in CycleIds :
         Write(c) =>
            LET t == cycles[c].tbl
                rows == cycles[c].snap[t]
                now == cycles[c].pullNow
            IN /\ \A i \in Ids :
                     rows[i].present =>
                        local'[t][i] = [status |-> "synced", content |-> rows[i].content,
                                        pid |-> rows[i].pid, lsa |-> now, lua |-> now]
               /\ \A i \in Ids : ~rows[i].present => local'[t][i] = local[t][i]
               /\ \A u \in Tables \ {t} : local'[u] = local[u]
               /\ queue' = queue]_vars

\* A pull has completed: a row it wrote carries the pull's time, and a local
\* row the gateway does not hold (a placeholder record) is still there.
C7_PullDone ==
    \E c \in CycleIds, t \in Tables :
        /\ cycles[c].pc = "evict"
        /\ \E i \in SrvIds : /\ local[t][i].status = "synced"
                             /\ local[t][i].lsa = cycles[c].pullNow
                             /\ local[t][i].lua = cycles[c].pullNow
                             /\ local[t][i].content > 0
        /\ \E j \in TempIds : Present(local[t][j]) /\ ~server[t][j].present

\* C9: a cycle that starts pushes every record it finds with sync_status
\* error: the records it selects include the error records it read.
C9_ErrorRecordsRetried ==
    \A c \in CycleIds : cycles[c].errSeen \subseteq cycles[c].sel

\* C10: in a cycle that runs alone and started with two pending documents,
\* when the gateway update of one fails, that document ends with sync_status
\* error, retry count 1 and its last_sync_at as before, the cycle runs on to
\* its pull and eviction, and the other document, once pushed, is synced
\* with a last_sync_at that is not null.
C10_TwoDocumentsOneFails ==
    [][\A c \in CycleIds :
         (/\ Push(c, FALSE)
          /\ cycles[c].tbl = "documents"
          /\ RunningCycles = {c}
          /\ Cardinality({i \in Ids : <<"documents", i>> \in cycles[c].sel}) = 2) =>
            LET bad == Head(cycles[c].todo).id IN
            /\ local'["documents"][bad].status = "error"
            /\ local'["documents"][bad].lsa = local["documents"][bad].lsa
            /\ \A k \in 1..Len(queue') :
                  (queue'[k].table = "documents" /\ queue'[k].original_id = bad) =>
                     queue'[k].retry_count = 1
            /\ cycles'[c].pc # "done"
            /\ \A i \in Ids :
                  (<<"documents", i>> \in cycles[c].okd
                     /\ local'["documents"][i].status # "pending") =>
                        /\ local'["documents"][i].status = "synced"
                        /\ local'["documents"][i].lsa # 0]_vars

\* C11: when the fetches of the pull fail the cycle ends with isSyncing
\* false and syncError set, and the local tables and the queue stay as the
\* push phase left them; a cycle that reaches its end without a cycle-level
\* error ends with syncError null.
C11_PullFailureKeepsPush ==
    [][\A c \in CycleIds :
         /\ Fetch(c, FALSE) =>
               /\ ~syncState'.isSyncing
               /\ syncState'.syncError
               /\ local' = local
               /\ queue' = queue
         /\ Evict(c) => ~syncState'.syncError]_vars

\* C12: a push loop takes up only records that are pending when it reads
\* its table, so a record that is synced then is never handed to the
\* gateway by that loop; and an iteration of a push loop leaves every synced
\* record other than the one it pushes exactly as it was.
C12_SyncedNotPushed ==
    [][\A c \in CycleIds :
         /\ \A k \in 1..Len(cycles'[c].todo) :
               \/ \E j \in 1..Len(cycles[c].todo) :
                     /\ cycles[c].tbl = cycles'[c].tbl
                     /\ cycles[c].todo[j] = cycles'[c].todo[k]
               \/ local'[cycles'[c].tbl][cycles'[c].todo[k].id].status = "pending"
         /\ (\E ok \in BOOLEAN : Push(c, ok)) =>
               \A t \in Tables, i \in Ids :
                  (/\ local[t][i].status = "synced"
                   /\ <<t, i>> # <<cycles[c].tbl, Head(cycles[c].todo).id>>) =>
                      local'[t][i] = local[t][i]]_vars

\* A push loop has pushed a record and is about to push another while a
\* synced record of the same table, which it did not select, sits untouched.
C12_SyncedLeftAlone ==
    \E c \in CycleIds, i \in Ids :
        /\ cycles[c].pc = "push"
        /\ cycles[c].pushed # {}
        /\ local[cycles[c].tbl][i].status = "synced"
        /\ <<cycles[c].tbl, i>> \notin cycles[c].sel
        /\ local[cycles[c].tbl][i].lsa = 1

\* C13: when the network observer delivers a transition to online while a
\* user is signed in and no cycle is running, a sync cycle starts, whether
\* the user signed in before or after the hook subscribed.
C13_OnlineStartsCycle ==
    [][(/\ NetworkChange
        /\ net'
        /\ user # NoUser
        /\ RunningCycles = {}
        /\ FreeSlots # {}) =>
           \E c \in CycleIds : cycles[c].pc = "free" /\ cycles'[c].pc # "free"]_vars

\* The only events so far are the mount and one transition to online, a user
\* is signed in, and no cycle was ever started.
C13_OnlineNoCycle ==
    /\ mounted.done
    /\ budget.net = 1 /\ budget.auth = 0 /\ budget.saves = 0
    /\ net /\ syncState.isOnline
    /\ user # NoUser
    /\ \A c \in CycleIds : cycles[c].pc = "free"

\* C15: each time the pull phase completes, the event 'offline-data-changed'
\* has been dispatched, so that the views listening for it reload.
C15_PullNotifies ==
    [][\A c \in CycleIds :
         (cycles[c].pc = "write" /\ cycles'[c].pc = "evict") =>
            "offline-data-changed" \in hist'.events]_vars

\* C16: a document deleted locally stays in the local table, and is left
\* out of what getDocuments returns, as long as no delete of it has been
\* confirmed by the gateway (the gateway is never asked to delete).
C16_DeleteKeepsRecord ==
    [][\A id \in Ids :
         DeleteDocument(id) =>
            /\ Present(local'["documents"][id])
            /\ id \notin getDocuments(local')]_vars

\* A document has been deleted locally: it is gone from the local table at
\* once, a delete is queued, and the gateway still holds it.
C16_DeletedAtOnce ==
    \E id \in SrvIds :
        /\ ~Present(local["documents"][id])
        /\ server["documents"][id].present
        /\ \E k \in 1..Len(queue) : /\ queue[k].operation = "delete"
                                    /\ queue[k].original_id = id

\* C17: the lastSyncAt of getSyncStats is the most recent last_sync_at over
\* the records of all three tables, and no prior sync (null, or 0 which
\* loadSyncStats reads as null) when no record has one; for each table
\* total = synced + pending + error; syncQueue is the number of queue entries.
C17_StatsCoverAllTables ==
    LET stats == getSyncStats(local, queue)
        stamps == {local[t][i].lsa : t \in Tables, i \in Ids} \ {0}
    IN /\ stamps = {} => stats.lastSyncAt <= 0
       /\ stamps # {} => /\ stats.lastSyncAt \in stamps
                         /\ \A x \in stamps : x <= stats.lastSyncAt
       /\ \A part \in {stats.documents, stats.projects, stats.standardInfo} :
             part.total = part.synced + part.pending + part.error
       /\ stats.syncQueue = Len(queue)

\* A project was synced after every document was: the statistics report the
\* documents' time.
C17_ProjectSyncedLater ==
    /\ \E i \in Ids : local["projects"][i].lsa > getSyncStats(local, queue).lastSyncAt
    /\ getSyncStats(local, queue).lastSyncAt > 0

\* C20: when a save*Offline call has returned, the saved record is pending
\* (with no last_sync_at), and the queue has grown by exactly one entry, for
\* that record, with retry_count 0, no last_error and the operation "update"
\* for a record saved with an id; a save without an id leaves no entry.
C20_SavePendingAndQueued ==
    [][/\ (hist'.saved # hist.saved) =>
             \A t \in Tables, id \in Ids :
                 (\E pid \in PidChoices(t, id) : SaveOffline(t, id, pid)) =>
                     /\ local'[t][id].status = "pending"
                     /\ local'[t][id].lsa = 0
                     /\ Len(queue') = Len(queue) + 1
                     /\ SubSeq(queue', 1, Len(queue)) = queue
                     /\ queue'[Len(queue')] =
                            [table |-> t, operation |-> "update", original_id |-> id,
                             retry_count |-> 0, last_error |-> FALSE]
       /\ (queue' # queue) => \A t \in Tables : ~SaveWithoutId(t)]_vars

\* A record that came from the server has been saved again: it is pending
\* and the newest queue entry is its update.
C20_SyncedRecordSaved ==
    \E t \in Tables, id \in Ids :
        /\ ~IsTemp(id)
        /\ local[t][id].status = "pending"
        /\ local[t][id].content = hist.saved
        /\ hist.saved > 0
        /\ Len(queue) > 0
        /\ queue[Len(queue)].original_id = id
        /\ queue[Len(queue)].table = t
        /\ queue[Len(queue)].operation = "update"


\* C21: a gateway failure of one record in a push loop stays inside that
\* record's iteration: the step sets no syncError, leaves isSyncing as it is
\* and does not end the cycle, which goes on with the records and phases
\* still to run.
C21_PushFailureContained ==
    [][\A c \in CycleIds :
         Push(c, FALSE) =>
            /\ syncState'.syncError = syncState.syncError
            /\ syncState'.isSyncing = syncState.isSyncing
            /\ cycles'[c].pc \in {"push", "fetch"}]_vars

\* A cycle was ended by a failed push: a record is in error, syncError is
\* set, no cycle is running, and a pending record was left unpushed.
C21_CycleEndedByPush ==
    /\ RunningCycles = {}
    /\ syncState.syncError
    /\ \E t \in Tables, i \in Ids : local[t][i].status = "error"
    /\ \E t \in Tables, i \in Ids : local[t][i].status = "pending"

\* The place of a table in the order the claim C22 states.
C22_TableRank(t) == IF t = "projects" THEN 1 ELSE IF t = "documents" THEN 2 ELSE 3

\* How far an invocation of syncData has come: the push loops, the fetches,
\* the put loops, the eviction, the end.
C22_PhaseRank(cy) ==
    IF cy.pc = "free" THEN 0
    ELSE IF cy.pc = "push" THEN C22_TableRank(cy.tbl)
    ELSE IF cy.pc = "fetch" THEN 4
    ELSE IF cy.pc = "write" THEN 4 + C22_TableRank(cy.tbl)
    ELSE IF cy.pc = "evict" THEN 8
    ELSE 9

\* C22: within one cycle the gateway writes for projects come before those
\* for documents and these before those for standard_info, every gateway
\* write comes before the fetches, and clearExpiredCache and the recomputed
\* statistics come after the last put of the pull: a cycle never steps back
\* to an earlier phase; the gateway's tables change only while a cycle is in
\* a push loop; a cycle in the push loop of a table has pushed records of
\* that table or of earlier tables only; and the step that evicts and ends
\* the cycle starts after the three put loops, writes no record and computes
\* the statistics from the tables as they are then.
C22_PhasesInOrder ==
    [][/\ (\A c \in CycleIds : cycles[c].pc # "push") => server' = server
       /\ \A c \in CycleIds :
             /\ C22_PhaseRank(cycles'[c]) >= C22_PhaseRank(cycles[c])
             /\ cycles[c].pc = "push" =>
                   \A p \in cycles[c].pushed :
                       C22_TableRank(p[1]) <= C22_TableRank(cycles[c].tbl)
             /\ (cycles[c].pc = "evict" /\ cycles'[c].pc # "evict") =>
                   /\ Evict(c)
                   /\ local' = local
                   /\ syncState'.syncStats = getSyncStats(local, queue)]_vars

\* A cycle that pushed a project and a document has finished its pull and is
\* about to evict.
C22_PushedTwoTablesThenPulled ==
    \E c \in CycleIds :
        /\ cycles[c].pc = "evict"
        /\ \E p, d \in cycles[c].pushed : p[1] = "projects" /\ d[1] = "documents"

\* C23: every started cycle terminates and isSyncing returns to false, on
\* the success path and on every failure path, given that each gateway and
\* storage call returns or throws; and there is no cancellation: a change of
\* the network state or of the signed-in user leaves every running cycle
\* where it is, with all its phases still to run.
C23_CyclesTerminate ==
    /\ \A c \in CycleIds : Running(c) ~> (cycles[c].pc = "done")
    /\ syncState.isSyncing ~> ~syncState.isSyncing
    /\ [][(net' # net \/ user' # user) =>
            \A c \in CycleIds : Running(c) => cycles'[c] = cycles[c]]_vars

\* A cycle is in its pull although the user has signed out and the network
\* is off.
C23_RunningSignedOutOffline ==
    \E c \in CycleIds :
        /\ cycles[c].pc = "write"
        /\ user = NoUser
        /\ ~net

\* C26: a document create sent to the gateway carries no placeholder
\* project_id: in every push step that creates a document (its id is a
\* placeholder), the project_id passed is an id the gateway assigned.
C26_CreateCarriesServerProjectId ==
    [][\A c \in CycleIds :
         (/\ cycles[c].pc = "push"
          /\ cycles[c].tbl = "documents"
          /\ IsTemp(Head(cycles[c].todo).id)
          /\ \E ok \in BOOLEAN : Push(c, ok)) =>
             ~IsTemp(Head(cycles[c].todo).pid)]_vars

\* A push loop is about to create a document whose project_id is the
\* placeholder id of a project held locally.
C26_CreateWithPlaceholderProject ==
    \E c \in CycleIds :
        /\ cycles[c].pc = "push"
        /\ cycles[c].tbl = "documents"
        /\ IsTemp(Head(cycles[c].todo).id)
        /\ IsTemp(Head(cycles[c].todo).pid)
        /\ Present(local["projects"][Head(cycles[c].todo).pid])

\* C27: a document deleted by deleteDocument does not become visible again
\* in local reads through a later sync cycle: a document whose newest queue
\* entry is its delete is not among the documents getDocuments returns.
C27_DeletedStaysDeleted ==
    \A k \in 1..Len(queue) :
        (/\ queue[k].table = "documents"
         /\ queue[k].operation = "delete"
         /\ \A j \in (k + 1)..Len(queue) :
               ~(queue[j].table = "documents" /\ queue[j].original_id = queue[k].original_id)) =>
            queue[k].original_id \notin getDocuments(local)

\* A deleted document is back in the local table, written by the pull, with
\* its delete still in the queue and the row still held by the gateway.
C27_DeletedDocumentPulledBack ==
    \E k \in 1..Len(queue) :
        /\ queue[k].table = "documents"
        /\ queue[k].operation = "delete"
        /\ k = Len(queue)
        /\ queue[k].original_id \in getDocuments(local)
        /\ local["documents"][queue[k].original_id].status = "synced"
        /\ server["documents"][queue[k].original_id].present

\* C28: when a cycle in which every push succeeded ends, the queue holds no
\* entry for a record it pushed (a record saved again since aside), and the
\* statistics show an empty queue when no record is pending or in error.
\* Stated for a cycle that runs alone.
C28_QueueDrained ==
    [][\A c \in CycleIds :
         (/\ cycles[c].pc = "evict"
          /\ cycles'[c].pc = "done"
          /\ RunningCycles = {c}
          /\ cycles[c].pushed # {}
          /\ cycles[c].failed = {}) =>
             /\ \A k \in 1..Len(queue') :
                   <<queue'[k].table, queue'[k].original_id>> \in cycles[c].pushed =>
                      local'[queue'[k].table][queue'[k].original_id].status = "pending"
             /\ (\A t \in Tables, i \in Ids : local'[t][i].status \notin {"pending", "error"}) =>
                   syncState'.syncStats.syncQueue = 0]_vars

\* No cycle is running, the last one ended without error, every record is
\* synced, and the queue still holds the entries of the records pushed.
C28_QueueKept ==
    /\ RunningCycles = {}
    /\ \E c \in CycleIds : cycles[c].pc = "done"
    /\ ~syncState.syncError
    /\ \A t \in Tables, i \in Ids : local[t][i].status \notin {"pending", "error"}
    /\ \E k \in 1..Len(queue) :
          /\ queue[k].operation = "update"
          /\ local[queue[k].table][queue[k].original_id].status = "synced"
    /\ syncState.syncStats.syncQueue = Len(queue)

(***************************************************************************)
(* Properties of the cache and the completion service, for the             *)
(* specification SpecCache.                                                *)
(***************************************************************************)

\* C4: two calls of generateCompletion whose requests derive the same cache
\* key, the second made before the first has resolved, wait for one and the
\* same remote request (requests cancelled in between aside).
C4_SingleInFlight ==
    \A c1, c2 \in CallerIds :
        (/\ callers[c1].pc = "waiting"
         /\ callers[c2].pc = "waiting"
         /\ callers[c1].key = callers[c2].key
         /\ ~reqs[callers[c1].req].aborted
         /\ ~reqs[callers[c2].req].aborted) =>
            callers[c1].req = callers[c2].req

\* Two remote requests for one key are in flight, neither cancelled.
C4_TwoRequests ==
    \E q1, q2 \in InFlight :
        /\ q1 # q2
        /\ reqs[q1].key = reqs[q2].key
        /\ ~reqs[q1].aborted /\ ~reqs[q2].aborted

\* C8: what getCache returns is the data of a row whose expires_at is after
\* the time of the call, and what the completion cache lookup returns is an
\* entry whose expiresAt is after the time of the lookup.
C8_NoExpiredEntryReturned ==
    /\ got.hit => got.exp > got.at
    /\ \A c \in CallerIds :
          (callers[c].pc = "lookup" /\ callers[c].cached.hit) =>
             callers[c].cached.exp > callers[c].cached.at

\* getCache found nothing for a key whose only row has expired and is still
\* in the table (no eviction has run since).
C8_ExpiredRowSkipped ==
    /\ ~got.hit
    /\ got.at = clock
    /\ \E e \in cache : /\ e.key = got.key
                        /\ e.expires_at.kind = "iso"
                        /\ e.expires_at.t <= got.at

\* C14: cancelCompletion(k) aborts the request registered under k and takes
\* k out of the pending-request map, leaves the requests and registrations
\* of every other key as they were, and a call of generateCompletion never
\* joins a request that was cancelled: the request a caller starts to wait
\* for is in flight and not aborted.
C14_CancelOnlyThatKey ==
    [][/\ \A k \in CacheKeys :
            cancelCompletion(k) =>
               /\ abortControllers[k] # 0 => reqs'[abortControllers[k]].aborted
               /\ pendingRequests'[k] = 0
               /\ \A k2 \in CacheKeys \ {k} :
                     /\ pendingRequests'[k2] = pendingRequests[k2]
                     /\ abortControllers'[k2] = abortControllers[k2]
               /\ \A q \in DOMAIN reqs : q # abortControllers[k] => reqs'[q] = reqs[q]
       /\ \A c \in CallerIds :
            (callers[c].pc # "waiting" /\ callers'[c].pc = "waiting") =>
               /\ reqs'[callers'[c].req].state = "inflight"
               /\ ~reqs'[callers'[c].req].aborted]_vars

\* A request was cancelled; another request, started before or after the
\* cancel, is in flight, not aborted and still registered under its key.
C14_CancelledAndLive ==
    \E q1, q2 \in DOMAIN reqs :
        /\ reqs[q1].aborted
        /\ reqs[q2].state = "inflight"
        /\ ~reqs[q2].aborted
        /\ pendingRequests[reqs[q2].key] = q2
        /\ abortControllers[reqs[q2].key] = q2

\* C18: a remote call that fails with a network error does not make
\* generateCompletion reject: every caller waiting for that request gets a
\* result.
C18_NetworkErrorResolves ==
    [][\A q \in CallerIds :
         (Reject(q) /\ ~reqs[q].aborted) =>
             \A c \in CallerIds :
                 (callers[c].pc = "waiting" /\ callers[c].req = q) => callers'[c].pc = "returned"]_vars

\* A caller whose request failed without having been cancelled: its promise
\* is rejected.
C18_CallerRejected ==
    \E c \in CallerIds :
        /\ callers[c].pc = "failed"
        /\ reqs[callers[c].req].state = "rejected"
        /\ ~reqs[callers[c].req].aborted

\* The Map holds an unexpired entry for key k.
FreshEntry(k) == memCache[k].present /\ DateAfter(memCache[k].expiresAt, clock)

C24_SettlingKeepsLaterEntries ==
    [][\A q \in CallerIds :
         (Reject(q) /\ reqs[q].aborted) =>
             \A q2 \in InFlight \ {q} :
                 /\ pendingRequests[reqs[q2].key] = q2 => pendingRequests'[reqs[q2].key] = q2
                 /\ abortControllers[reqs[q2].key] = q2 => abortControllers'[reqs[q2].key] = q2]_vars

\* A cancelled request has settled and the request issued after it for the
\* same key, still in flight and never cancelled, is in neither map.
C24_LaterRequestUnregistered ==
    \E q1, q2 \in DOMAIN reqs :
        /\ q1 < q2
        /\ reqs[q1].state = "rejected" /\ reqs[q1].aborted
        /\ reqs[q2].state = "inflight" /\ ~reqs[q2].aborted
        /\ reqs[q1].key = reqs[q2].key
        /\ pendingRequests[reqs[q2].key] = 0
        /\ abortControllers[reqs[q2].key] = 0

\* C25: the key the hook's cleanup passes to cancelCompletion is the key
\* under which the service registered the hook's request, so the cleanup
\* aborts that request and no other: after a cleanup by the hook whose call
\* waits for a request in flight, that request is aborted and every other
\* request is as it was.
C25_HookCancelsItsRequest ==
    [][\A c \in CallerIds :
         (HookCleanup(c) /\ callers[c].pc = "waiting"
            /\ reqs[callers[c].req].state = "inflight") =>
             /\ callers[c].requestKey = callers[c].key
             /\ reqs'[callers[c].req].aborted
             /\ \A q \in DOMAIN reqs : q # callers[c].req => reqs'[q] = reqs[q]]_vars

\* A hook's request is in flight and registered under the service's key,
\* which is not the key the hook holds.
C25_KeysDiffer ==
    \E c \in CallerIds :
        /\ callers[c].pc = "waiting"
        /\ reqs[callers[c].req].state = "inflight"
        /\ abortControllers[callers[c].key] = callers[c].req
        /\ callers[c].requestKey # callers[c].key
        /\ callers[c].requestKey \notin DOMAIN abortControllers

\* C29: a setCache replaces the earlier entry of its key: the table holds at
\* most one row for a key, and getCache returns the data of the unexpired
\* row of the key that was set last.
C29_LastSetWins ==
    [][\A k \in UserKeys :
         GetCache(k) =>
            LET rows == {e \in cache : e.key = k /\ ExpiresAfter(e.expires_at, clock)}
            IN rows # {} =>
                  /\ Cardinality({e \in cache : e.key = k}) = 1
                  /\ got'.hit
                  /\ \A e \in rows : (\A f \in rows : f.id[3] <= e.id[3]) => got'.data = e.data]_vars

\* Two unexpired rows of one key with different data are in the table, and
\* getCache has returned the data of the one set first.
C29_OlderValueReturned ==
    \E e, f \in cache :
        /\ e.key = got.key /\ f.key = got.key
        /\ ExpiresAfter(e.expires_at, got.at) /\ ExpiresAfter(f.expires_at, got.at)
        /\ e.id[3] < f.id[3]
        /\ e.data # f.data
        /\ got.hit
        /\ got.data = e.data
        /\ got.at = clock

(***************************************************************************)
(* Properties of the useCompletion hook, for the specification SpecHook.   *)
(***************************************************************************)

\* C30: every promise the hook's generateCompletion returns settles, also
\* that of a call whose timer a later generateCompletion or cancelCompletion
\* cleared; a timer that fires belongs to the last call made; and loading is
\* false when every call made has settled.  A promise settles through its
\* timer's callback only, so the first part says that no step leaves a
\* debouncing call without its timer.
C30_HookPromisesSettle ==
    [][/\ \A i \in HookCalls :
             hookState'.calls[i] = "debouncing" => i \in hookState'.armed
       /\ \A i \in HookCalls :
             TimerFires(i) => \A j \in HookCalls : j > i => hookState.calls[j] = "none"
       /\ (\A i \in HookCalls : hookState'.calls[i] \in {"none", "resolved", "rejected"}) =>
             ~hookState'.loading]_vars

\* The promise of a call is pending with its timer cleared and no service
\* request made for it: nothing is left that would settle it.
C30_PromiseLeftPending ==
    \E i \in HookCalls :
        /\ hookState.calls[i] = "debouncing"
        /\ i \notin hookState.armed
        /\ \/ hookState.cancels > 0
           \/ \E j \in HookCalls : j > i /\ hookState.calls[j] # "none"

====
